---- MODULE Spec2Model ----
(***************************************************************************)
(* A model of package prerender (src/handler.go, src/variables.go): the    *)
(* net/http middleware that classifies a request, rebuilds its absolute    *)
(* URL, calls the rendering service and relays the answer.                 *)
(*                                                                         *)
(* Text that the code inspects with package strings (User-Agent, path,     *)
(* header values, error text, URLs) is a sequence of one-character         *)
(* strings, so that ToLower, Contains, HasPrefix and HasSuffix are         *)
(* computed character by character.  Names that the code only compares     *)
(* for equality (method, header and query keys) are plain strings.         *)
(***************************************************************************)
EXTENDS Integers, Sequences, FiniteSets, TLC

VARIABLES
    h,         \* the handler: botUserAgents, ignoredExtension, prerenderServiceURL
    req,       \* the inbound *http.Request being served (NoRequest when idle)
    pc,        \* where the handler stands
    result,    \* the value returned by the function a pure-function specification applies
    subCalls,  \* the requests h.sub.ServeHTTP was invoked with, in order
    outbound,  \* the requests handed to httpClient.Do, in order
    resp,      \* what httpClient.Do returned: the *http.Response (NilResponse for nil)
    err,       \* what httpClient.Do returned: the error (NilError for nil)
    rw,        \* the http.ResponseWriter of the inbound request
    errLog,    \* number of "prerender error" lines handed to h.logf
    served     \* number of requests the server has finished with

vars == <<h, req, pc, result, subCalls, outbound, resp, err, rw, errLog, served>>

----------------------------------------------------------------------------
(* Bounds of the model *)

\* longest User-Agent and path drawn for the classifier
MaxLen == 2

\* requests the server takes one after the other
MaxRequests == 2

----------------------------------------------------------------------------
(* package strings *)

\* the letters of the model's texts drawn by length; "A" is the upper case of "a"
Alphabet == {"a", "A", "."}

Strs(n) == UNION {[1..k -> Alphabet] : k \in 0..n}

LowerRune(c) == IF c = "A" THEN "a" ELSE c

ToLower(s) == [i \in 1..Len(s) |-> LowerRune(s[i])]

HasPrefix(s, prefix) ==
    /\ Len(s) >= Len(prefix)
    /\ SubSeq(s, 1, Len(prefix)) = prefix

HasSuffix(s, suffix) ==
    /\ Len(s) >= Len(suffix)
    /\ SubSeq(s, Len(s) - Len(suffix) + 1, Len(s)) = suffix

\* strings.Index(s, substr) >= 0
Contains(s, substr) ==
    \E i \in 0..(Len(s) - Len(substr)) : SubSeq(s, i + 1, i + Len(substr)) = substr

----------------------------------------------------------------------------
(* src/variables.go: the defaults, cut down to entries over Alphabet *)

\* stands for "http://service.prerender.io/"
prerenderServiceURL == <<"h", "t", "t", "p", ":", "/", "/", "s", "/">>

\* all lower case, like the entries of the source's list
crawlerUserAgents == << <<"a">>, <<".", ".">> >>

extensionsToIgnore == << <<".", "a">> >>

----------------------------------------------------------------------------
(* Handler and its options *)

Bots(hh, userAgents) == [hh EXCEPT !.botUserAgents = userAgents]

IgnoredExtensions(hh, exts) == [hh EXCEPT !.ignoredExtension = exts]

ServiceURL(hh, url) == [hh EXCEPT !.prerenderServiceURL = url]

\* "keep the default": the option is not among those passed to Handler
NoOption == <<"no option">>

\* Handler(app, options...): the defaults, then the user's options
Handler(bots, exts, url) ==
    LET h0 == [botUserAgents |-> crawlerUserAgents,
               ignoredExtension |-> extensionsToIgnore,
               prerenderServiceURL |-> prerenderServiceURL]
        h1 == IF bots = NoOption THEN h0 ELSE Bots(h0, bots)
        h2 == IF exts = NoOption THEN h1 ELSE IgnoredExtensions(h1, exts)
    IN  IF url = NoOption THEN h2 ELSE ServiceURL(h2, url)

----------------------------------------------------------------------------
(* The inbound request *)

X_BUFFERBOT == "X-Bufferbot"

ESCAPED_FRAGMENT == "_escaped_fragment_"

NoRequest == [none |-> TRUE]

\* req.URL.Query(): the values of every key of the query, in order of appearance.
\* RawQuery is held parsed, as the sequence of its key=value pairs.
Query(rawQuery) ==
    [k \in {rawQuery[i].key : i \in 1..Len(rawQuery)} |->
        LET RECURSIVE values(_)
            values(i) == IF i > Len(rawQuery) THEN <<>>
                         ELSE IF rawQuery[i].key = k
                              THEN <<rawQuery[i].value>> \o values(i + 1)
                              ELSE values(i + 1)
        IN  values(1)]

\* req.Header.Get(key): the first value of the header, "" when absent.
\* Header holds, per header the code reads, that first value.
HeaderGet(r, key) == r.Header[key]

UserAgent(r) == HeaderGet(r, "User-Agent")

----------------------------------------------------------------------------
(* Classifier *)

\* the loop of isBot and of containsIgnoredExtension: the first name, from index i
\* on, that s contains ends the loop with true
RECURSIVE ContainsAnyFrom(_, _, _)
ContainsAnyFrom(s, names, i) ==
    IF i > Len(names) THEN FALSE
    ELSE IF Contains(s, names[i]) THEN TRUE
    ELSE ContainsAnyFrom(s, names, i + 1)

isBot(hh, ua) == ContainsAnyFrom(ToLower(ua), hh.botUserAgents, 1)

containsIgnoredExtension(hh, path) == ContainsAnyFrom(ToLower(path), hh.ignoredExtension, 1)

\* as shouldShowPrerenderedPage, had line 132 asked for a value that is not empty
shouldShowValuedFragment(hh, r) ==
    LET userAgent == UserAgent(r)
        bufferAgent == HeaderGet(r, X_BUFFERBOT)
        query == Query(r.URL.RawQuery)
        fragment == /\ ESCAPED_FRAGMENT \in DOMAIN query
                    /\ Len(query[ESCAPED_FRAGMENT]) > 0
                    /\ query[ESCAPED_FRAGMENT][1] # <<>>
    IN  IF userAgent = <<>> THEN FALSE
        ELSE IF r.Method # "GET" THEN FALSE
        ELSE IF containsIgnoredExtension(hh, r.URL.Path) THEN FALSE
        ELSE fragment \/ isBot(hh, userAgent) \/ bufferAgent # <<>>

shouldShowPrerenderedPage(hh, r) ==
    LET userAgent == UserAgent(r)
        bufferAgent == HeaderGet(r, X_BUFFERBOT)
        query == Query(r.URL.RawQuery)
        fragment == /\ ESCAPED_FRAGMENT \in DOMAIN query
                    /\ Len(query[ESCAPED_FRAGMENT]) > 0
        isRequestingPrerenderedPage ==
            IF fragment THEN TRUE
            ELSE IF isBot(hh, userAgent) THEN TRUE
            ELSE IF bufferAgent # <<>> THEN TRUE
            ELSE FALSE
    IN  IF userAgent = <<>> THEN FALSE
        ELSE IF r.Method # "GET" THEN FALSE
        ELSE IF containsIgnoredExtension(hh, r.URL.Path) THEN FALSE
        ELSE isRequestingPrerenderedPage

----------------------------------------------------------------------------
(* package net/url, as far as buildApiUrl uses it *)

NilError == [nil |-> TRUE]

Error(text) == [text |-> text]

\* the first index of c in s from i on, 0 when there is none
RECURSIVE IndexFrom(_, _, _)
IndexFrom(s, c, i) ==
    IF i > Len(s) THEN 0
    ELSE IF s[i] = c THEN i
    ELSE IndexFrom(s, c, i + 1)

\* url.ParseRequestURI for the request URIs of the model, which are empty, in
\* origin form ("/path?query") or a bare word: an empty URI and a URI with
\* neither a leading "/" nor a scheme are errors; the path ends at the first "?".
ParseRequestURI(rawurl) ==
    IF rawurl = <<>> THEN [u |-> NoRequest, err |-> Error("empty url")]
    ELSE IF rawurl[1] # "/" THEN [u |-> NoRequest, err |-> Error("invalid URI for request")]
    ELSE LET q == IndexFrom(rawurl, "?", 1)
         IN  [u |-> [Scheme |-> <<>>,
                     Host |-> <<>>,
                     Path |-> IF q = 0 THEN rawurl ELSE SubSeq(rawurl, 1, q - 1),
                     RawQuery |-> IF q = 0 THEN <<>> ELSE SubSeq(rawurl, q + 1, Len(rawurl))],
              err |-> NilError]

\* (*URL).String(): scheme "://" host path, then "?" and the query when there is
\* one.  The hosts and paths of the model hold nothing String would escape.
String(u) ==
    u.Scheme \o <<":", "/", "/">> \o u.Host \o u.Path
        \o (IF u.RawQuery = <<>> THEN <<>> ELSE <<"?">> \o u.RawQuery)

\* url.QueryEscape, one character at a time: letters, digits and - _ . ~ stay,
\* every other character becomes % and its two hexadecimal digits
QueryEscapeRune(c) ==
    CASE c = ":" -> <<"%", "3", "A">>
      [] c = "/" -> <<"%", "2", "F">>
      [] c = "?" -> <<"%", "3", "F">>
      [] c = "=" -> <<"%", "3", "D">>
      [] c = "," -> <<"%", "2", "C">>
      [] OTHER -> <<c>>

RECURSIVE QueryEscape(_)
QueryEscape(s) ==
    IF s = <<>> THEN <<>> ELSE QueryEscapeRune(Head(s)) \o QueryEscape(Tail(s))

----------------------------------------------------------------------------
(* URLBuilder *)

CF_HTTPS ==
    <<"\"", "s", "c", "h", "e", "m", "e", "\"", ":", "\"", "h", "t", "t", "p", "s", "\"">>

X_FORWARDED_HTTPS == <<"h", "t", "t", "p", "s", ",">>

HTTP == <<"h", "t", "t", "p">>

HTTPS == <<"h", "t", "t", "p", "s">>

\* as resolveHost, had the request URL's host been asked before the Host header
resolveHostURLFirst(r) ==
    LET h1 == r.URL.Host
        h2 == IF h1 = <<>> THEN HeaderGet(r, "Host") ELSE h1
    IN  IF h2 = <<>> THEN r.Host ELSE h2

\* lines 269-278: the host of the rebuilt URL, <<>> when no source names one
resolveHost(r) ==
    LET h1 == HeaderGet(r, "Host")
        h2 == IF h1 = <<>> THEN r.URL.Host ELSE h1
    IN  IF h2 = <<>> THEN r.Host ELSE h2

\* as resolveScheme, had X-Forwarded-Proto been searched like Cf-Visitor
resolveSchemeContains(r) ==
    IF Contains(HeaderGet(r, "Cf-Visitor"), CF_HTTPS) THEN HTTPS
    ELSE IF Contains(HeaderGet(r, "X-Forwarded-Proto"), X_FORWARDED_HTTPS) THEN HTTPS
    ELSE HTTP

\* lines 280-286: the scheme of the rebuilt URL
resolveScheme(r) ==
    IF Contains(HeaderGet(r, "Cf-Visitor"), CF_HTTPS) THEN HTTPS
    ELSE IF HasPrefix(HeaderGet(r, "X-Forwarded-Proto"), X_FORWARDED_HTTPS) THEN HTTPS
    ELSE HTTP

\* lines 264-286: the URL of the inbound request, rebuilt
reconstructURL(r) ==
    LET parsed == ParseRequestURI(r.RequestURI)
    IN  IF parsed.err # NilError THEN parsed
        ELSE IF resolveHost(r) = <<>>
             THEN [u |-> NoRequest, err |-> Error("undetectable host")]
             ELSE [u |-> [parsed.u EXCEPT !.Host = resolveHost(r),
                                          !.Scheme = resolveScheme(r)],
                   err |-> NilError]

buildApiUrl(hh, r) ==
    LET rebuilt == reconstructURL(r)
        base == IF HasSuffix(hh.prerenderServiceURL, <<"/">>)
                THEN hh.prerenderServiceURL
                ELSE hh.prerenderServiceURL \o <<"/">>
    IN  IF rebuilt.err # NilError
        THEN [rawurl |-> <<>>, err |-> rebuilt.err]
        ELSE [rawurl |-> base \o QueryEscape(String(rebuilt.u)), err |-> NilError]

----------------------------------------------------------------------------
(* http.ResponseWriter, as net/http's server implements it *)

\* the header names the model's responses carry
HeaderKeys == {"Location", "Set-Cookie", "Content-Type", "X-Content-Type-Options"}

\* an http.Header: the values of every name, <<>> for a name that is absent
EmptyHeader == [k \in HeaderKeys |-> <<>>]

HeaderSet(hd, key, value) == [hd EXCEPT ![key] = <<value>>]

HeaderAdd(hd, key, value) == [hd EXCEPT ![key] = Append(@, value)]

NewResponseWriter ==
    [header |-> EmptyHeader,   \* rw.Header(): the map the handler edits
     wroteHeader |-> FALSE,
     status |-> 0,             \* the status sent to the client
     sentHeader |-> EmptyHeader, \* the headers sent to the client
     body |-> <<>>,            \* the body bytes sent to the client
     calls |-> <<>>]           \* the handler's calls on rw, in order

\* rw.WriteHeader(code): the first call sends the status with the headers as they
\* are then; a later call is superfluous and changes nothing that is sent
WriteHeader(w, code) ==
    IF w.wroteHeader
    THEN [w EXCEPT !.calls = Append(@, <<"WriteHeader", code>>)]
    ELSE [w EXCEPT !.wroteHeader = TRUE,
                   !.status = code,
                   !.sentHeader = w.header,
                   !.calls = Append(@, <<"WriteHeader", code>>)]

\* rw.Write(b): sends the status 200 first when none was written
Write(w, b) ==
    LET w1 == IF w.wroteHeader THEN w
              ELSE [w EXCEPT !.wroteHeader = TRUE, !.status = 200, !.sentHeader = w.header]
    IN  [w1 EXCEPT !.body = @ \o b, !.calls = Append(@, <<"Write", b>>)]

\* the edits of rw.Header() by one copying loop, noted as one call
EditHeader(w, hd) == [w EXCEPT !.header = hd, !.calls = Append(@, <<"Header">>)]

StatusInternalServerError == 500

\* http.Error(rw, "Internal server error", code)
HttpError(w, code) ==
    LET hd == HeaderSet(HeaderSet(w.header, "Content-Type", "text/plain; charset=utf-8"),
                        "X-Content-Type-Options", "nosniff")
    IN  Write(WriteHeader(EditHeader(w, hd), code), <<"Internal server error", "\n">>)

----------------------------------------------------------------------------
(* Relay *)

NilResponse == [nil |-> TRUE]

Redirect == <<"R", "e", "d", "i", "r", "e", "c", "t">>

\* the text of the *url.Error that httpClient.Do returns: Get "<url>": <cause>
UrlError(url, cause) ==
    Error(<<"G", "e", "t", " ", "\"">> \o url \o <<"\"", ":", " ">> \o cause)

\* http.NewRequest("GET", rawurl, nil) fails when url.Parse(rawurl) does: of the
\* model's URLs, the one that starts with ":" (missing protocol scheme)
NewRequestFails(rawurl) == rawurl[1] = ":"

\* the inner loop of lines 213-217 over the values of one name, from index i on
RECURSIVE SetValuesFrom(_, _, _, _)
SetValuesFrom(hd, key, values, i) ==
    IF i > Len(values) THEN hd
    ELSE SetValuesFrom(HeaderSet(hd, key, values[i]), key, values, i + 1)

\* the inner loop of lines 228-232 over the values of one name, from index i on
RECURSIVE AddValuesFrom(_, _, _, _)
AddValuesFrom(hd, key, values, i) ==
    IF i > Len(values) THEN hd
    ELSE AddValuesFrom(HeaderAdd(hd, key, values[i]), key, values, i + 1)

\* lines 212-218: every name is edited on its own, so the order in which the map
\* is ranged over does not show
CopyHeaderSet(w, src) ==
    IF src = EmptyHeader THEN w
    ELSE EditHeader(w, [k \in HeaderKeys |-> SetValuesFrom(w.header, k, src[k], 1)[k]])

\* lines 227-233
CopyHeaderAdd(w, src) ==
    IF src = EmptyHeader THEN w
    ELSE EditHeader(w, [k \in HeaderKeys |-> AddValuesFrom(w.header, k, src[k], 1)[k]])

\* getPrerenderedPage, lines 172-204: up to the call of httpClient.Do
getPrerenderedPage ==
    LET built == buildApiUrl(h, req)
    IN  IF built.err # NilError \/ NewRequestFails(built.rawurl)
        THEN /\ errLog' = errLog + 1
             /\ rw' = HttpError(rw, StatusInternalServerError)
             /\ pc' = "done"
             /\ UNCHANGED outbound
        ELSE /\ outbound' = Append(outbound, [Method |-> "GET",
                                              URL |-> built.rawurl,
                                              UserAgent |-> UserAgent(req)])
             /\ pc' = "Do"
             /\ UNCHANGED <<rw, errLog>>

\* as ServeHTTP, without the return of line 107
ServeHTTPFallsThrough ==
    /\ pc = "accepted"
    /\ IF ~shouldShowPrerenderedPage(h, req)
       THEN subCalls' = Append(subCalls, [req |-> req, rw |-> rw])
       ELSE UNCHANGED subCalls
    /\ getPrerenderedPage
    /\ UNCHANGED <<h, req, result, resp, err, served>>

\* ServeHTTP, lines 104-111
ServeHTTP ==
    /\ pc = "accepted"
    /\ IF ~shouldShowPrerenderedPage(h, req)
       THEN /\ subCalls' = Append(subCalls, [req |-> req, rw |-> rw])
            /\ pc' = "done"
            /\ UNCHANGED <<outbound, rw, errLog>>
       ELSE /\ getPrerenderedPage
            /\ UNCHANGED subCalls
    /\ UNCHANGED <<h, req, result, resp, err, served>>

\* lines 204-233: httpClient.Do has returned (r, e)
AfterDo(r, e) ==
    /\ pc = "Do"
    /\ resp' = r
    /\ err' = e
    /\ IF e # NilError /\ ~HasSuffix(e.text, Redirect)
       THEN /\ errLog' = errLog + 1
            /\ rw' = HttpError(rw, StatusInternalServerError)
            /\ pc' = "done"
       ELSE IF e # NilError /\ HasSuffix(e.text, Redirect)
       THEN IF r = NilResponse
            THEN \* resp.Header of a nil *http.Response: the handler panics
                 /\ pc' = "panicked"
                 /\ UNCHANGED <<rw, errLog>>
            ELSE /\ rw' = Write(WriteHeader(CopyHeaderSet(rw, r.Header), 301), <<>>)
                 /\ pc' = "done"
                 /\ UNCHANGED errLog
       ELSE /\ rw' = CopyHeaderAdd(WriteHeader(rw, r.StatusCode), r.Header)
            /\ pc' = "ReadAll"
            /\ UNCHANGED errLog
    /\ UNCHANGED <<h, req, result, subCalls, outbound, served>>

\* lines 237-246: ioutil.ReadAll(resp.Body) returns the body's content, or fails
ReadAll ==
    /\ pc = "ReadAll"
    /\ IF resp.Body.fails
       THEN /\ errLog' = errLog + 1
            /\ rw' = HttpError(rw, StatusInternalServerError)
       ELSE /\ rw' = Write(rw, resp.Body.content)
            /\ UNCHANGED errLog
    /\ pc' = "done"
    /\ UNCHANGED <<h, req, result, subCalls, outbound, resp, err, served>>

----------------------------------------------------------------------------
(* The requests, the configurations and the rendering service's answers *)

Request(method, ua, bufferAgent, path, rawQuery, urlHost, host, hostHeader, cf, proto, uri) ==
    [Method |-> method,
     URL |-> [Host |-> urlHost, Path |-> path, RawQuery |-> rawQuery],
     Host |-> host,
     RequestURI |-> uri,
     Header |-> [k \in {"User-Agent", X_BUFFERBOT, "Host", "Cf-Visitor", "X-Forwarded-Proto"} |->
                    CASE k = "User-Agent" -> ua
                      [] k = X_BUFFERBOT -> bufferAgent
                      [] k = "Host" -> hostHeader
                      [] k = "Cf-Visitor" -> cf
                      [] k = "X-Forwarded-Proto" -> proto]]

Methods == {"GET", "POST"}

\* no query; ?_escaped_fragment_ ; ?_escaped_fragment_=a ; ?file=.a
RawQueries ==
    {<<>>,
     <<[key |-> ESCAPED_FRAGMENT, value |-> <<>>]>>,
     <<[key |-> ESCAPED_FRAGMENT, value |-> <<"a">>]>>,
     <<[key |-> "file", value |-> <<".", "a">>]>>}

\* the lists handed to Bots: none (the default stays), an entry in upper case, none at all
BotOptions == {NoOption, << <<"A">> >>, <<>>}

\* the lists handed to IgnoredExtensions
ExtensionOptions == {NoOption, << <<".", "A">> >>, << <<"a", "a">>, <<"A", ".">> >>}

\* the URLs handed to ServiceURL, or met in PRERENDER_SERVICE_URL: none, one
\* without the final "/", one that does not parse
ServiceURLOptions == {NoOption, <<"h", "t", "t", "p", ":", "/", "/", "s">>, <<":">>}

\* "", "a", "/a", "/a?_escaped_fragment_="
RequestURIs ==
    {<<>>, <<"a">>, <<"/", "a">>,
     <<"/", "a", "?", "_", "e", "s", "c", "a", "p", "e", "d", "_",
       "f", "r", "a", "g", "m", "e", "n", "t", "_", "=">>}

\* "", {"scheme":"https"}, {"scheme":"http"}, "scheme":"https
CfVisitors ==
    {<<>>,
     <<"{">> \o CF_HTTPS \o <<"}">>,
     <<"{", "\"", "s", "c", "h", "e", "m", "e", "\"", ":", "\"", "h", "t", "t", "p", "\"", "}">>,
     SubSeq(CF_HTTPS, 1, Len(CF_HTTPS) - 1)}

\* "", "https,1.2.3.4", "https", "http,https,", "https,"
ForwardedProtos ==
    {<<>>,
     X_FORWARDED_HTTPS \o <<"1", ".", "2", ".", "3", ".", "4">>,
     HTTPS,
     HTTP \o <<",">> \o X_FORWARDED_HTTPS,
     X_FORWARDED_HTTPS}

\* the requests the classifier is applied to
ClassifierRequests ==
    {Request(m, ua, ba, <<"/">> \o p, q, <<>>, <<"c">>, <<>>, <<>>, <<>>, <<"/">> \o p) :
        m \in Methods, ua \in Strs(MaxLen), ba \in {<<>>, <<"1">>},
        p \in Strs(MaxLen), q \in RawQueries}

\* the requests buildApiUrl is applied to
BuilderRequests ==
    {Request("GET", <<"a">>, <<>>, <<"/", "a">>, <<>>, uh, rh, hh, cf, fp, uri) :
        uh \in {<<>>, <<"b">>}, rh \in {<<>>, <<"c">>}, hh \in {<<>>, <<"a">>},
        cf \in CfVisitors, fp \in ForwardedProtos, uri \in RequestURIs}

\* the requests the server takes
ServedRequests ==
    {Request(m, ua, <<>>, p, q, <<>>, rh, hh, cf, fp, uri) :
        m \in Methods, ua \in {<<>>, <<"a">>, <<"A", ".">>, <<".">>},
        p \in {<<"/", "a">>, <<"/", "a", ".", "a">>},
        q \in {<<>>, <<[key |-> ESCAPED_FRAGMENT, value |-> <<>>]>>},
        rh \in {<<>>, <<"c">>}, hh \in {<<>>, <<"a">>},
        cf \in {<<>>, <<"{">> \o CF_HTTPS \o <<"}">>},
        fp \in {<<>>, HTTPS},
        uri \in {<<>>, <<"/", "a">>}}

\* what makes httpClient.Do fail without a response: the connection ends (EOF);
\* the service sends the header line "Redirect", without a colon
TransportCauses ==
    {<<"E", "O", "F">>,
     <<"m", "a", "l", "f", "o", "r", "m", "e", "d", " ", "M", "I", "M", "E", " ",
       "h", "e", "a", "d", "e", "r", " ", "l", "i", "n", "e", ":", " ">> \o Redirect}

\* the statuses on which http.Client consults CheckRedirect
RedirectStatuses == {301, 302, 307}

ResponseStatuses == {200, 404}

WithLocation == [EmptyHeader EXCEPT !["Location"] = <<"https://example.com/foo">>]

WithContentType == [EmptyHeader EXCEPT !["Content-Type"] = <<"text/html">>]

\* a redirect carries a Location, and may set cookies
RedirectHeaders ==
    {WithLocation, [WithLocation EXCEPT !["Set-Cookie"] = <<"a=1", "b=2">>]}

ResponseHeaders ==
    {EmptyHeader, WithContentType, [WithContentType EXCEPT !["Set-Cookie"] = <<"a=1", "b=2">>]}

\* the body of an answer: its content, and whether reading it fails on the way
Bodies ==
    {[content |-> <<>>, fails |-> FALSE],
     [content |-> <<"<html>">>, fails |-> FALSE],
     [content |-> <<"<html>">>, fails |-> TRUE]}

\* the body of the response that comes with CheckRedirect's error is closed
ClosedBody == [content |-> <<>>, fails |-> FALSE]

----------------------------------------------------------------------------
(* The server: one request after the other through ServeHTTP *)

NoResult == [none |-> TRUE]

Idle ==
    /\ req = NoRequest
    /\ pc = "idle"
    /\ result = NoResult
    /\ subCalls = <<>>
    /\ outbound = <<>>
    /\ resp = NilResponse
    /\ err = NilError
    /\ rw = NewResponseWriter
    /\ errLog = 0

Init ==
    /\ h \in {Handler(NoOption, NoOption, url) : url \in ServiceURLOptions}
    /\ Idle
    /\ served = 0

\* the server hands a request and a fresh ResponseWriter to the handler
Accept ==
    /\ pc = "idle"
    /\ served < MaxRequests
    /\ req' \in ServedRequests
    /\ pc' = "accepted"
    /\ UNCHANGED <<h, result, subCalls, outbound, resp, err, rw, errLog, served>>

\* httpClient.Do fails without a response
DoFails ==
    \E cause \in TransportCauses :
        AfterDo(NilResponse, UrlError(outbound[Len(outbound)].URL, cause))

\* the service answers with a redirect: CheckRedirect's error comes back with it
DoRedirected ==
    \E status \in RedirectStatuses, hd \in RedirectHeaders :
        AfterDo([StatusCode |-> status, Header |-> hd, Body |-> ClosedBody],
                UrlError(outbound[Len(outbound)].URL, Redirect))

\* the service answers
DoAnswered ==
    \E status \in ResponseStatuses, hd \in ResponseHeaders, body \in Bodies :
        AfterDo([StatusCode |-> status, Header |-> hd, Body |-> body], NilError)

\* the handler has returned, or its panic has been recovered by the server
Finish ==
    /\ pc \in {"done", "panicked"}
    /\ served' = served + 1
    /\ req' = NoRequest
    /\ pc' = "idle"
    /\ subCalls' = <<>>
    /\ outbound' = <<>>
    /\ resp' = NilResponse
    /\ err' = NilError
    /\ rw' = NewResponseWriter
    /\ errLog' = 0
    /\ UNCHANGED <<h, result>>

Next ==
    \/ Accept
    \/ ServeHTTP
    \/ DoFails
    \/ DoRedirected
    \/ DoAnswered
    \/ ReadAll
    \/ Finish

Spec == Init /\ [][Next]_vars

----------------------------------------------------------------------------
(* The classifier alone, applied to every request and configuration drawn *)

InitClassify ==
    /\ h \in {Handler(bots, exts, NoOption) : bots \in BotOptions, exts \in ExtensionOptions}
    /\ req \in ClassifierRequests
    /\ pc = "input"
    /\ result = NoResult
    /\ subCalls = <<>>
    /\ outbound = <<>>
    /\ resp = NilResponse
    /\ err = NilError
    /\ rw = NewResponseWriter
    /\ errLog = 0
    /\ served = 0

Classify ==
    /\ pc = "input"
    /\ result' = [intercept |-> shouldShowPrerenderedPage(h, req)]
    /\ pc' = "classified"
    /\ UNCHANGED <<h, req, subCalls, outbound, resp, err, rw, errLog, served>>

SpecClassify == InitClassify /\ [][Classify]_vars

----------------------------------------------------------------------------
(* buildApiUrl alone *)

InitBuild ==
    /\ h \in {Handler(NoOption, NoOption, url) : url \in ServiceURLOptions}
    /\ req \in BuilderRequests
    /\ pc = "input"
    /\ result = NoResult
    /\ subCalls = <<>>
    /\ outbound = <<>>
    /\ resp = NilResponse
    /\ err = NilError
    /\ rw = NewResponseWriter
    /\ errLog = 0
    /\ served = 0

BuildApiUrl ==
    /\ pc = "input"
    /\ result' = buildApiUrl(h, req)
    /\ pc' = "built"
    /\ UNCHANGED <<h, req, subCalls, outbound, resp, err, rw, errLog, served>>

SpecBuild == InitBuild /\ [][BuildApiUrl]_vars

----------------------------------------------------------------------------
(* Claims *)

\* the rendering-service URL of the request rebuilt with the given scheme and host
ExpectedApiUrl(scheme, host) ==
    LET uri == req.RequestURI
        q == IndexFrom(uri, "?", 1)
        path == IF q = 0 THEN uri ELSE SubSeq(uri, 1, q - 1)
        query == IF q = 0 THEN <<>> ELSE <<"?">> \o SubSeq(uri, q + 1, Len(uri))
        svc == h.prerenderServiceURL
    IN  (IF svc[Len(svc)] = "/" THEN svc ELSE svc \o <<"/">>)
            \o QueryEscape(scheme \o <<":", "/", "/">> \o host \o path \o query)

HasFragment == \E j \in 1..Len(req.URL.RawQuery) : req.URL.RawQuery[j].key = ESCAPED_FRAGMENT

MatchesBot ==
    \E i \in 1..Len(h.botUserAgents) : Contains(ToLower(UserAgent(req)), h.botUserAgents[i])

MatchesExtension ==
    \E i \in 1..Len(h.ignoredExtension) : Contains(ToLower(req.URL.Path), h.ignoredExtension[i])

\* C1: the classifier intercepts exactly the requests that have a User-Agent, are
\* GET, carry no configured ignored extension in the lower-cased path, and have a
\* trigger: _escaped_fragment_ in the query (whatever its value), a configured bot
\* name in the lower-cased User-Agent, or a non-empty X-Bufferbot header.
C1_InterceptIff ==
    pc = "classified" =>
        (result.intercept <=>
            /\ UserAgent(req) # <<>>
            /\ req.Method = "GET"
            /\ ~MatchesExtension
            /\ (HasFragment \/ MatchesBot \/ HeaderGet(req, X_BUFFERBOT) # <<>>))

\* a request whose only trigger is an _escaped_fragment_ with an empty value is intercepted
C1_Witness ==
    /\ pc = "classified"
    /\ result.intercept
    /\ req.URL.RawQuery = <<[key |-> ESCAPED_FRAGMENT, value |-> <<>>]>>
    /\ ~MatchesBot
    /\ HeaderGet(req, X_BUFFERBOT) = <<>>

\* C9: isBot and containsIgnoredExtension are containment with letter case ignored
\* on both sides: the User-Agent (the path) and the configured entry.
C9_CaseInsensitive ==
    pc = "classified" =>
        /\ isBot(h, UserAgent(req)) <=>
              \E i \in 1..Len(h.botUserAgents) :
                  Contains(ToLower(UserAgent(req)), ToLower(h.botUserAgents[i]))
        /\ containsIgnoredExtension(h, req.URL.Path) <=>
              \E i \in 1..Len(h.ignoredExtension) :
                  Contains(ToLower(req.URL.Path), ToLower(h.ignoredExtension[i]))

NoHost == HeaderGet(req, "Host") = <<>> /\ req.URL.Host = <<>> /\ req.Host = <<>>

FirstHost ==
    IF HeaderGet(req, "Host") # <<>> THEN HeaderGet(req, "Host")
    ELSE IF req.URL.Host # <<>> THEN req.URL.Host
    ELSE req.Host

WantsHTTPS ==
    \/ Contains(HeaderGet(req, "Cf-Visitor"), CF_HTTPS)
    \/ HasPrefix(HeaderGet(req, "X-Forwarded-Proto"), X_FORWARDED_HTTPS)

\* C8: the rebuilt URL has the scheme https when Cf-Visitor contains
\* "scheme":"https" or X-Forwarded-Proto starts with "https,", and http otherwise.
C8_SchemeIff ==
    (pc = "built" /\ result.err = NilError) =>
        result.rawurl = ExpectedApiUrl(IF WantsHTTPS THEN HTTPS ELSE HTTP, resolveHost(req))

\* X-Forwarded-Proto alone forces https, next to a Cf-Visitor that says http
C8_Witness ==
    /\ pc = "built"
    /\ result.err = NilError
    /\ HeaderGet(req, "Cf-Visitor") # <<>>
    /\ ~Contains(HeaderGet(req, "Cf-Visitor"), CF_HTTPS)
    /\ HasPrefix(HeaderGet(req, "X-Forwarded-Proto"), X_FORWARDED_HTTPS)
    /\ result.rawurl = ExpectedApiUrl(HTTPS, resolveHost(req))

\* ServeHTTP has dispatched the request
Dispatched == pc \notin {"idle", "accepted", "input", "classified", "built"}

\* the handler has returned or panicked
Ended == pc \in {"done", "panicked"}

Intercepted == Dispatched /\ shouldShowPrerenderedPage(h, req)

\* httpClient.Do came back with CheckRedirect's error and the redirect response
Redirected == Dispatched /\ err # NilError /\ resp # NilResponse

\* httpClient.Do came back with an error and no response
Failed == Dispatched /\ err # NilError /\ resp = NilResponse

\* the positions in rw.calls of the calls of one kind
Calls(kind) == {i \in 1..Len(rw.calls) : rw.calls[i][1] = kind}

\* every value of every header of the upstream response is among those sent
HeadersRelayed == \A k \in HeaderKeys : resp.Header[k] # <<>> => rw.sentHeader[k] = resp.Header[k]

\* C2: a request the classifier passes through goes to the wrapped handler, once,
\* with the request and the ResponseWriter as they came, and the handler neither
\* calls the rendering service nor writes to the response; a request the
\* classifier intercepts never reaches the wrapped handler.
C2_Dispatch ==
    Dispatched =>
        IF shouldShowPrerenderedPage(h, req)
        THEN subCalls = <<>>
        ELSE /\ subCalls = <<[req |-> req, rw |-> NewResponseWriter]>>
             /\ outbound = <<>>
             /\ rw = NewResponseWriter
             /\ pc = "done"

\* a GET with a User-Agent that names no bot has been handed to the wrapped handler
C2_Witness ==
    /\ pc = "done"
    /\ req.Method = "GET"
    /\ UserAgent(req) = <<".">>
    /\ req.URL.RawQuery = <<>>
    /\ Len(subCalls) = 1
    /\ outbound = <<>>

\* C3: after a normal answer whose body was read, the client has been sent the
\* upstream status, every upstream header with all its values and the upstream
\* body, and the handler edited the headers before it wrote the status, and wrote
\* the status before the body.
C3_Relayed ==
    (pc = "done" /\ Dispatched /\ resp # NilResponse /\ err = NilError /\ ~resp.Body.fails) =>
        /\ rw.status = resp.StatusCode
        /\ HeadersRelayed
        /\ rw.body = resp.Body.content
        /\ \A i \in Calls("Header"), j \in Calls("WriteHeader") : i < j
        /\ \A i \in Calls("WriteHeader"), j \in Calls("Write") : i < j

\* C4: after a redirect of the rendering service, which is not followed, the
\* client has been sent the status 301, no body, and every header of the redirect
\* response with all its values.
C4_RedirectRelayed ==
    (Ended /\ Redirected) =>
        /\ Len(outbound) = 1
        /\ rw.status = 301
        /\ rw.body = <<>>
        /\ HeadersRelayed

\* C5: a failure of the outbound call that is not the redirect signal (there is
\* no upstream response), whatever its text, is logged and answered with the
\* status 500 and no page body, never with 301.  ("No body" is read as: nothing
\* is written but what http.Error itself sends with the 500.)
C5_FailureIs500 ==
    (Failed /\ pc # "Do") =>
        /\ pc = "done"
        /\ errLog = 1
        /\ rw.status = StatusInternalServerError
        /\ rw.body \in {<<>>, <<"Internal server error", "\n">>}
        /\ \A i \in Calls("WriteHeader") : rw.calls[i][2] # 301

\* C6: when the handler of an intercepted request has returned, on whatever
\* path, it has written the status exactly once and the body at most once.
C6_WrittenOnce ==
    (pc = "done" /\ Intercepted) =>
        /\ Cardinality(Calls("WriteHeader")) = 1
        /\ Cardinality(Calls("Write")) <= 1

\* C10: an intercepted request makes one outbound GET when its URL is built (and
\* the outbound request can be made from it), none and a 500 when the build fails;
\* the call is never repeated, and after a failed call the request has ended with
\* its response.
C10_OneCall ==
    Intercepted =>
        /\ Len(outbound) <= 1
        /\ (Ended /\ buildApiUrl(h, req).err # NilError) =>
              /\ outbound = <<>>
              /\ rw.status = StatusInternalServerError
        /\ (Ended /\ buildApiUrl(h, req).err = NilError
                  /\ ~NewRequestFails(buildApiUrl(h, req).rawurl)) =>
              outbound = <<[Method |-> "GET",
                            URL |-> buildApiUrl(h, req).rawurl,
                            UserAgent |-> UserAgent(req)]>>
        /\ Failed =>
              /\ pc = "done"
              /\ rw.wroteHeader

====
